---- MODULE Spec2Model ----
(***************************************************************************)
(* The prediction router of the SaveMyMoney ML API                         *)
(* (src/ml-api/app/routers/predictions.py) as a state machine.             *)
(*                                                                         *)
(* The service is stateless: the only state it reads is the MongoDB        *)
(* collection "transactions" and the import-time flag                      *)
(* TENSORFLOW_AVAILABLE.  Every endpoint is one action; the action records *)
(* the request it served, the list get_user_transactions handed it, every  *)
(* call it made to a predictor and the response the client receives.       *)
(*                                                                         *)
(* Representation.  A transaction document is reduced to the fields the    *)
(* router itself reads: user, type, category and date.  A list of          *)
(* documents is kept run-length encoded: a sequence of runs                *)
(* [doc |-> d, n |-> k], k >= 1 consecutive copies of the document d.      *)
(* Amounts only flow into the predictors and into the text of a            *)
(* recommendation; the predictors live in app/ml/, and what a call to one *)
(* of them returns or raises is an input of the model.                     *)
(***************************************************************************)
EXTENDS Integers, Sequences, FiniteSets

VARIABLES
    db,                     \* db.transactions: document -> number of copies
    TENSORFLOW_AVAILABLE,   \* import-time capability flag of lstm_predictor
    endpoint,               \* the endpoint that served the last request
    request,                \* the last request, as the client sent it
    fetched,                \* TRUE iff the handler called get_user_transactions
    transactions,           \* the list get_user_transactions returned
    calls,                  \* the predictor invocations of the last request
    response                \* the response delivered to the client

vars == <<db, TENSORFLOW_AVAILABLE, endpoint, request, fetched, transactions,
          calls, response>>

----------------------------------------------------------------------------
(* Bounds and sample domains *)

\* largest number of copies of one document in a small collection
MaxCount == 2

\* cursor.to_list(length=1000)
ListLimit == 1000

\* compare_models runs the LSTM only with len(transactions) >= 8
LstmMinTransactions == 8

\* Field(ge=1, le=365)
DaysAheadMin == 1
DaysAheadMax == 365

Users == {"u1", "u2"}
Categories == {"", "food", "rent"}

\* days_ahead values a client may send: both edges of 1..365 and their
\* outer neighbours
DaysAheadInputs == {0, 1, 365, 366}

\* model_type values a client may send
ModelTypeInputs == {"linear", "lstm", "arima"}

\* Optional[str]: None is the empty tuple, a string s is <<s>>
None == << >>
Some(s) == <<s>>

Doc(u, t, c, d) == [user |-> u, type |-> t, category |-> c, date |-> d]

\* the expense documents of user u1 whose number of copies varies
UserDocs ==
    { Doc("u1", "expense", "", 1), Doc("u1", "expense", "food", 1),
      Doc("u1", "expense", "food", 2), Doc("u1", "expense", "rent", 2) }

\* documents every collection holds: income of u1, and the documents of u2
OtherDocs ==
    { Doc("u1", "income", "food", 1), Doc("u2", "expense", "rent", 1),
      Doc("u2", "income", "food", 2), Doc("u2", "income", "rent", 2) }

AllDocs == UserDocs \cup OtherDocs

OtherCount(d) == IF d.type = "income" THEN 2 ELSE 1

\* collections: of each document of UserDocs none, one or several copies;
\* "several" is MaxCount in a small collection and ListLimit in one that
\* may exceed the list limit
Collections ==
    { [d \in AllDocs |-> IF d \in UserDocs THEN f[d] ELSE OtherCount(d)] :
        f \in [UserDocs -> {0, 1, MaxCount}] \cup [UserDocs -> {0, 1, ListLimit}] }

----------------------------------------------------------------------------
(* Run-length encoded lists *)

RECURSIVE ListLen(_)
\* len(list)
ListLen(list) ==
    IF list = << >> THEN 0 ELSE Head(list).n + ListLen(Tail(list))

RECURSIVE Take(_, _)
\* the first `length` documents of a list
Take(list, length) ==
    IF list = << >> \/ length <= 0 THEN << >>
    ELSE IF Head(list).n >= length
         THEN << [doc |-> Head(list).doc, n |-> length] >>
         ELSE << Head(list) >> \o Take(Tail(list), length - Head(list).n)

RECURSIVE FilterCategory(_, _)
\* [t for t in list if t['category'] == category]
FilterCategory(list, category) ==
    IF list = << >> THEN << >>
    ELSE IF Head(list).doc.category = category
         THEN << Head(list) >> \o FilterCategory(Tail(list), category)
         ELSE FilterCategory(Tail(list), category)

\* set([t['category'] for t in list])
CategoriesOf(list) == { list[i].doc.category : i \in 1..Len(list) }

\* the number of documents of list that equal d
CopiesIn(list, d) ==
    LET idx == { i \in 1..Len(list) : list[i].doc = d }
    IN  IF idx = {} THEN 0 ELSE list[CHOOSE i \in idx : TRUE].n

\* the orderings of the finite set S
Orderings(S) ==
    { s \in [1..Cardinality(S) -> S] :
        \A i, j \in 1..Cardinality(S) : i # j => s[i] # s[j] }

----------------------------------------------------------------------------
(* get_user_transactions *)

\* Python truth value of an Optional[str]: None and "" are false
Truthy(category) == category # None /\ category[1] # ""

\* query = {"user": user_id, "type": "expense"} plus, `if category:`,
\* query["category"] = category
Query(user_id, category) ==
    [user |-> user_id, type |-> "expense",
     category |-> IF Truthy(category) THEN category ELSE None]

\* the documents of the collection that match the query
Find(query) ==
    { d \in DOMAIN db :
        /\ db[d] > 0
        /\ d.user = query.user
        /\ d.type = query.type
        /\ query.category # None => d.category = query.category[1] }

\* mutant of SortByDate: .sort("date", -1)
SortByDate_Descending(S) ==
    { [i \in 1..Len(s) |-> [doc |-> s[i], n |-> db[s[i]]]] :
        s \in { o \in Orderings(S) :
                  \A i, j \in 1..Len(o) : i < j => o[i].date >= o[j].date } }

\* .sort("date", 1): ascending by date; MongoDB leaves the order of
\* documents with equal dates open, so every such order is possible
SortByDate(S) ==
    { [i \in 1..Len(s) |-> [doc |-> s[i], n |-> db[s[i]]]] :
        s \in { o \in Orderings(S) :
                  \A i, j \in 1..Len(o) : i < j => o[i].date <= o[j].date } }

\* await cursor.to_list(length=1000)
ToList(cursor) == Take(cursor, ListLimit)

\* the lists get_user_transactions(user_id, category) may return
get_user_transactions(user_id, category) ==
    { ToList(cursor) : cursor \in SortByDate(Find(Query(user_id, category))) }

----------------------------------------------------------------------------
(* Exceptions, handler results and what the framework makes of them *)

HTTPException(status_code) == [cls |-> "HTTPException", status_code |-> status_code]
ErrorOf(cls) == [cls |-> cls, status_code |-> 0]

\* the classes an exception of class cls is an instance of:
\* fastapi.HTTPException, ValueError and RuntimeError derive from Exception,
\* pydantic's ValidationError from ValueError
ClassesOf(cls) ==
    CASE cls = "HTTPException" -> {"HTTPException", "Exception"}
      [] cls = "ValueError" -> {"ValueError", "Exception"}
      [] cls = "ValidationError" -> {"ValidationError", "ValueError", "Exception"}
      [] OTHER -> {cls, "Exception"}

\* `except <cls>` catches exc
Catches(cls, exc) == cls \in ClassesOf(exc.cls)

Return(value) == [kind |-> "return", value |-> value]
Raise(exc) == [kind |-> "raise", exc |-> exc]

ErrorBody(detail) == [kind |-> "error", detail |-> detail]

\* FastAPI: a returned value is a 200, a raised HTTPException its own status,
\* any other exception leaving the handler a 500
Deliver(result) ==
    IF result.kind = "return" THEN [status |-> 200, body |-> result.value]
    ELSE IF result.exc.cls = "HTTPException"
         THEN [status |-> result.exc.status_code, body |-> ErrorBody("detail")]
         ELSE [status |-> 500, body |-> ErrorBody("Internal Server Error")]

\* FastAPI: a request that fails validation never reaches the handler
Unprocessable == [status |-> 422, body |-> ErrorBody("validation")]

----------------------------------------------------------------------------
(* The predictors (app/ml/linear_predictor.py, app/ml/lstm_predictor.py) *)

\* results a predictor may return; the router reads result["trend"],
\* result["total_predicted"] and result["avg_daily_spending"] of every result
ForecastResults ==
    { [trend |-> "increasing", total_predicted |-> 4],
      [trend |-> "decreasing", total_predicted |-> 2],
      [trend |-> "stable", total_predicted |-> 1] }

\* LinearPredictor().predict(transactions, days_ahead) returns a result or
\* raises
LinearPredict(list, days_ahead) ==
    { Return(r) : r \in ForecastResults }
        \cup { Raise(ErrorOf("ValueError")), Raise(ErrorOf("RuntimeError")) }

\* LSTMPredictor().predict(transactions, days_ahead) returns a result or
\* raises
LSTMPredict(list, days_ahead) ==
    { Return(r) : r \in ForecastResults }
        \cup { Raise(ErrorOf("ValueError")), Raise(ErrorOf("RuntimeError")) }

\* one call of predictor.predict, as the handlers record it: the predictor,
\* its arguments and what the call did
Call(predictor, list, days_ahead, outcome) ==
    [predictor |-> predictor, transactions |-> list, days_ahead |-> days_ahead,
     outcome |-> outcome]

----------------------------------------------------------------------------
(* PredictionRequest (schemas.py) *)

PredictionRequest(user_id, category, days_ahead, model_type) ==
    [user_id |-> user_id, category |-> category, days_ahead |-> days_ahead,
     model_type |-> model_type]

\* days_ahead: Field(ge=1, le=365); model_type: pattern "^(linear|lstm)$"
ValidPredictionRequest(req) ==
    /\ req.days_ahead >= DaysAheadMin
    /\ req.days_ahead <= DaysAheadMax
    /\ req.model_type \in {"linear", "lstm"}

----------------------------------------------------------------------------
(* POST /predict *)

\* mutant of SelectPredictor: without TensorFlow the linear predictor is used
SelectPredictor_Fallback(model_type) ==
    IF model_type = "lstm" /\ TENSORFLOW_AVAILABLE THEN "lstm" ELSE "linear"

\* lines 51-59: the predictor the request selects
SelectPredictor(model_type) ==
    IF model_type = "lstm"
    THEN IF ~TENSORFLOW_AVAILABLE THEN "unavailable" ELSE "lstm"
    ELSE "linear"

PredictionResponse(req, result) ==
    [kind |-> "PredictionResponse", user_id |-> req.user_id,
     category |-> req.category, model_type |-> req.model_type,
     total_predicted |-> result.total_predicted, trend |-> result.trend]

\* the try block of predict_expenses, lines 41-76; outcome is what
\* predictor.predict does when it is called
PredictTry(req, list, outcome) ==
    IF ListLen(list) = 0
    THEN [calls |-> << >>, result |-> Raise(HTTPException(404))]
    ELSE LET predictor == SelectPredictor(req.model_type)
         IN  IF predictor = "unavailable"
             THEN [calls |-> << >>, result |-> Raise(HTTPException(503))]
             ELSE [calls |-> << Call(predictor, list, req.days_ahead, outcome) >>,
                   result |-> IF outcome.kind = "raise" THEN outcome
                              ELSE Return(PredictionResponse(req, outcome.value))]

\* the except clauses of predict_expenses, lines 78-81
PredictExcept(result) ==
    IF result.kind = "raise" /\ Catches("ValueError", result.exc)
    THEN Raise(HTTPException(400))
    ELSE IF result.kind = "raise" /\ Catches("Exception", result.exc)
         THEN Raise(HTTPException(500))
         ELSE result

\* predict_expenses(request), given the list fetched and the predictor's outcome
predict_expenses(req, list, outcome) ==
    LET try == PredictTry(req, list, outcome)
    IN  [fetched |-> TRUE, transactions |-> list, calls |-> try.calls,
         result |-> PredictExcept(try.result)]

\* a handler that ended before it fetched anything
NotFetched(result) ==
    [fetched |-> FALSE, transactions |-> << >>, calls |-> << >>, result |-> result]

\* the outcomes of the predictor a request selects
OutcomesFor(req, list) ==
    IF req.model_type = "lstm" THEN LSTMPredict(list, req.days_ahead)
    ELSE LinearPredict(list, req.days_ahead)

\* the router dispatches a request to its handler (one request at a time in
\* this model); the handler runs to its end and the client receives the response
Serve(name, req, run, resp) ==
    /\ endpoint' = name
    /\ request' = req
    /\ fetched' = run.fetched
    /\ transactions' = run.transactions
    /\ calls' = run.calls
    /\ response' = resp
    /\ UNCHANGED <<db, TENSORFLOW_AVAILABLE>>

PredictExpenses ==
    /\ endpoint = "none"
    /\ \E user_id \in Users, category \in {None} \cup {Some(c) : c \in Categories},
       days_ahead \in DaysAheadInputs, model_type \in ModelTypeInputs :
        LET req == PredictionRequest(user_id, category, days_ahead, model_type)
        IN  IF ~ValidPredictionRequest(req)
            THEN Serve("predict", req, NotFetched(Return(None)), Unprocessable)
            ELSE \E list \in get_user_transactions(req.user_id, req.category) :
                 \E outcome \in OutcomesFor(req, list) :
                    LET run == predict_expenses(req, list, outcome)
                    IN  Serve("predict", req, run, Deliver(run.result))

----------------------------------------------------------------------------
(* GET /category/{user_id}/{category} *)

\* predict_category: the request is built inside the handler, so a
\* ValidationError of PredictionRequest leaves the handler uncaught
PredictCategory ==
    /\ endpoint = "none"
    /\ \E user_id \in Users, category \in Categories \ {""},
       days_ahead \in DaysAheadInputs, model_type \in ModelTypeInputs :
        LET req == PredictionRequest(user_id, Some(category), days_ahead, model_type)
        IN  IF ~ValidPredictionRequest(req)
            THEN LET run == NotFetched(Raise(ErrorOf("ValidationError")))
                 IN  Serve("category", req, run, Deliver(run.result))
            ELSE \E list \in get_user_transactions(req.user_id, req.category) :
                 \E outcome \in OutcomesFor(req, list) :
                    LET run == predict_expenses(req, list, outcome)
                    IN  Serve("category", req, run, Deliver(run.result))

----------------------------------------------------------------------------
(* GET /insights/{user_id} *)

\* mutant of SkipCategory: only empty categories are skipped
SkipCategory_Empty(cat_transactions) == ListLen(cat_transactions) < 1

\* line 110: a category is skipped when it has fewer than 2 transactions
SkipCategory(cat_transactions) == ListLen(cat_transactions) < 2

\* _generate_recommendation, by the branch taken (the percentages are text)
_generate_recommendation(trend) ==
    IF trend = "increasing" THEN "aumentando"
    ELSE IF trend = "decreasing" THEN "diminuindo"
    ELSE "estaveis"

CategoryInsights(category, result) ==
    [category |-> category, trend |-> result.trend,
     recommendation |-> _generate_recommendation(result.trend)]

\* mutant of AddInsight: the total is assigned, not added
AddInsight_Assign(acc, category, result) ==
    [acc EXCEPT
        !.category_insights = Append(@, CategoryInsights(category, result)),
        !.total_predicted = result.total_predicted]

\* lines 134-135: the insight is appended and its total added
AddInsight(acc, category, result) ==
    [acc EXCEPT
        !.category_insights = Append(@, CategoryInsights(category, result)),
        !.total_predicted = @ + result.total_predicted]

\* mutant of CategoryFailed: no try around the forecast of a category
CategoryFailed_Propagate(acc, exc) == [acc EXCEPT !.raised = Some(exc)]

\* lines 137-139: `except Exception` inside the loop prints and continues;
\* an exception it does not catch leaves the loop
CategoryFailed(acc, exc) ==
    IF Catches("Exception", exc) THEN acc ELSE [acc EXCEPT !.raised = Some(exc)]

\* one iteration of the loop of lines 106-139
InsightsStep(acc, list, category, days_ahead, outcome) ==
    LET cat_transactions == FilterCategory(list, category)
    IN  IF SkipCategory(cat_transactions) THEN acc
        ELSE LET called == [acc EXCEPT !.calls =
                              Append(@, Call("linear", cat_transactions, days_ahead,
                                             outcome))]
             IN  IF outcome.kind = "raise"
                 THEN CategoryFailed(called, outcome.exc)
                 ELSE AddInsight(called, category, outcome.value)

RECURSIVE InsightsLoop(_, _, _, _, _)
\* the loop of lines 106-139 over categories, a list in set iteration order
InsightsLoop(acc, list, categories, days_ahead, outcomes) ==
    IF categories = << >> \/ acc.raised # None THEN acc
    ELSE InsightsLoop(
            InsightsStep(acc, list, Head(categories), days_ahead,
                         outcomes[Head(categories)]),
            list, Tail(categories), days_ahead, outcomes)

\* the number of insights with the given trend
TrendCount(category_insights, trend) ==
    Cardinality({ i \in 1..Len(category_insights) :
                    category_insights[i].trend = trend })

\* mutant of OverallTrend: a tie counts as increasing
OverallTrend_TieIncreasing(category_insights) ==
    LET increasing_count == TrendCount(category_insights, "increasing")
        decreasing_count == TrendCount(category_insights, "decreasing")
    IN  IF increasing_count >= decreasing_count THEN "increasing"
        ELSE "decreasing"

\* lines 141-150
OverallTrend(category_insights) ==
    LET increasing_count == TrendCount(category_insights, "increasing")
        decreasing_count == TrendCount(category_insights, "decreasing")
    IN  IF increasing_count > decreasing_count THEN "increasing"
        ELSE IF decreasing_count > increasing_count THEN "decreasing"
        ELSE "stable"

InsightsResponse(user_id, acc) ==
    [kind |-> "InsightsResponse", user_id |-> user_id,
     total_predicted_spending |-> acc.total_predicted,
     categories |-> acc.category_insights,
     overall_trend |-> OverallTrend(acc.category_insights)]

\* the try block of get_spending_insights, lines 89-159
InsightsTry(user_id, days_ahead, list, categories, outcomes) ==
    IF ListLen(list) = 0
    THEN [calls |-> << >>, result |-> Raise(HTTPException(404))]
    ELSE LET acc == InsightsLoop(
                        [category_insights |-> << >>, total_predicted |-> 0,
                         calls |-> << >>, raised |-> None],
                        list, categories, days_ahead, outcomes)
         IN  [calls |-> acc.calls,
              result |-> IF acc.raised # None THEN Raise(acc.raised[1])
                         ELSE Return(InsightsResponse(user_id, acc))]

\* the except clauses of get_spending_insights and compare_models:
\* `except HTTPException: raise`, then `except Exception` -> 500
ReraiseExcept(result) ==
    IF result.kind = "raise" /\ Catches("HTTPException", result.exc)
    THEN result
    ELSE IF result.kind = "raise" /\ Catches("Exception", result.exc)
         THEN Raise(HTTPException(500))
         ELSE result

get_spending_insights(user_id, days_ahead, list, categories, outcomes) ==
    LET try == InsightsTry(user_id, days_ahead, list, categories, outcomes)
    IN  [fetched |-> TRUE, transactions |-> list, calls |-> try.calls,
         result |-> ReraiseExcept(try.result)]

\* the categories of list the loop calls the predictor for
Predicted(list) ==
    { c \in CategoriesOf(list) : ~SkipCategory(FilterCategory(list, c)) }

\* days_ahead: int = 30 is a plain query parameter: any integer is accepted
GetSpendingInsights ==
    /\ endpoint = "none"
    /\ \E user_id \in Users, days_ahead \in DaysAheadInputs :
       \E list \in get_user_transactions(user_id, None) :
       \E categories \in Orderings(CategoriesOf(list)) :
       \E outcomes \in [Predicted(list) -> LinearPredict(list, days_ahead)] :
           LET req == PredictionRequest(user_id, None, days_ahead, "linear")
               run == get_spending_insights(user_id, days_ahead, list, categories,
                                            outcomes)
           IN  Serve("insights", req, run, Deliver(run.result))

----------------------------------------------------------------------------
(* GET /compare/{user_id} *)

\* line 214: the LSTM is tried only with TensorFlow and 8 transactions
LstmApplies(list) == TENSORFLOW_AVAILABLE /\ ListLen(list) >= LstmMinTransactions

\* the try block of compare_models, lines 190-229
CompareTry(user_id, days_ahead, list, linear_outcome, lstm_outcome) ==
    IF ListLen(list) = 0
    THEN [calls |-> << >>, result |-> Raise(HTTPException(404))]
    ELSE LET linear_call == Call("linear", list, days_ahead, linear_outcome)
         IN  IF linear_outcome.kind = "raise"
             THEN [calls |-> << linear_call >>, result |-> linear_outcome]
             ELSE IF LstmApplies(list)
                  THEN [calls |-> << linear_call,
                                     Call("lstm", list, days_ahead, lstm_outcome) >>,
                        result |-> Return(
                            [kind |-> "comparison", user_id |-> user_id,
                             days_ahead |-> days_ahead,
                             linear_regression |-> linear_outcome.value,
                             lstm |-> IF lstm_outcome.kind = "raise"
                                      THEN [lstm_error |-> lstm_outcome.exc.cls]
                                      ELSE lstm_outcome.value])]
                  ELSE [calls |-> << linear_call >>,
                        result |-> Return(
                            [kind |-> "comparison", user_id |-> user_id,
                             days_ahead |-> days_ahead,
                             linear_regression |-> linear_outcome.value,
                             lstm |-> [not_available |-> TRUE]])]

compare_models(user_id, days_ahead, list, linear_outcome, lstm_outcome) ==
    LET try == CompareTry(user_id, days_ahead, list, linear_outcome, lstm_outcome)
    IN  [fetched |-> TRUE, transactions |-> list, calls |-> try.calls,
         result |-> ReraiseExcept(try.result)]

CompareModels ==
    /\ endpoint = "none"
    /\ \E user_id \in Users, days_ahead \in DaysAheadInputs :
       \E list \in get_user_transactions(user_id, None) :
       \E linear_outcome \in LinearPredict(list, days_ahead),
          lstm_outcome \in LSTMPredict(list, days_ahead) :
           LET req == PredictionRequest(user_id, None, days_ahead, "linear")
               run == compare_models(user_id, days_ahead, list, linear_outcome,
                                     lstm_outcome)
           IN  Serve("compare", req, run, Deliver(run.result))

----------------------------------------------------------------------------
(* The service *)

\* no request is being served: nothing of a request is kept
Idle ==
    /\ endpoint = "none"
    /\ request = PredictionRequest("", None, 30, "linear")
    /\ fetched = FALSE
    /\ transactions = << >>
    /\ calls = << >>
    /\ response = [status |-> 0, body |-> ErrorBody("none")]

Init ==
    /\ db \in Collections
    /\ TENSORFLOW_AVAILABLE \in BOOLEAN
    /\ Idle

\* the response is sent and everything the request created is discarded
Finish ==
    /\ endpoint # "none"
    /\ endpoint' = "none"
    /\ request' = PredictionRequest("", None, 30, "linear")
    /\ fetched' = FALSE
    /\ transactions' = << >>
    /\ calls' = << >>
    /\ response' = [status |-> 0, body |-> ErrorBody("none")]
    /\ UNCHANGED <<db, TENSORFLOW_AVAILABLE>>

Next ==
    \/ PredictExpenses
    \/ PredictCategory
    \/ GetSpendingInsights
    \/ CompareModels
    \/ Finish

Spec == Init /\ [][Next]_vars

----------------------------------------------------------------------------
(* What the claims speak of *)

InRange(days_ahead) == days_ahead >= 1 /\ days_ahead <= 365

\* the handler fetched a list with at least one transaction
FetchedSome == fetched /\ transactions # << >>

\* the handler fetched and the store had nothing for the request
FetchedNone == fetched /\ transactions = << >>

\* the last request went through predict_expenses
ViaPredictExpenses == endpoint \in {"predict", "category"}

\* the number of transactions of the fetched list in category c
InCategory(c) ==
    LET idx == { i \in 1..Len(transactions) : transactions[i].doc.category = c }
        RECURSIVE Sum(_)
        Sum(I) == IF I = {} THEN 0
                  ELSE LET i == CHOOSE x \in I : TRUE
                       IN  transactions[i].n + Sum(I \ {i})
    IN  Sum(idx)

\* the category a call of the insights loop was made for
CallCategory(call) == call.transactions[1].doc.category

\* the calls of the last request whose forecast succeeded
Succeeded == { i \in 1..Len(calls) : calls[i].outcome.kind = "return" }

\* the categories listed in an InsightsResponse
Listed == { response.body.categories[i].category :
              i \in 1..Len(response.body.categories) }

InsightsOk == endpoint = "insights" /\ response.status = 200

RECURSIVE SumTotals(_)
\* the sum of total_predicted over the calls with the indices I
SumTotals(I) ==
    IF I = {} THEN 0
    ELSE LET i == CHOOSE x \in I : TRUE
         IN  calls[i].outcome.value.total_predicted + SumTotals(I \ {i})

----------------------------------------------------------------------------
(* C1 *)

\* C1: a request for model_type "lstm" served by predict_expenses while
\* TENSORFLOW_AVAILABLE is false and the user has at least one transaction
\* ends in an error response; no predictor (so no linear predictor) is
\* invoked and no PredictionResponse is returned.
C1_NoSilentSubstitute ==
    (ViaPredictExpenses /\ FetchedSome /\ request.model_type = "lstm"
        /\ ~TENSORFLOW_AVAILABLE)
    => /\ calls = << >>
       /\ response.status >= 400
       /\ response.body.kind = "error"

C1_Witness ==
    /\ endpoint = "predict" /\ FetchedSome /\ request.model_type = "lstm"
    /\ ~TENSORFLOW_AVAILABLE /\ response.status >= 400 /\ calls = << >>

----------------------------------------------------------------------------
(* C2 *)

\* C2: on every forecasting entry point, when the transaction store returns
\* an empty list the client receives status 404 and no predictor is invoked.
C2_EmptyIsNotFound ==
    (endpoint # "none" /\ FetchedNone)
    => response.status = 404 /\ calls = << >>

----------------------------------------------------------------------------
(* C3 *)

\* C3: in predict_expenses and predict_category a request for "lstm" while
\* the capability is unavailable is answered with status 503.
C3_UnavailableIs503 ==
    (ViaPredictExpenses /\ FetchedSome /\ request.model_type = "lstm"
        /\ ~TENSORFLOW_AVAILABLE)
    => response.status = 503

----------------------------------------------------------------------------
(* C4 *)

\* C4: on every entry point a days_ahead outside 1..365 is rejected as an
\* invalid parameter before any predictor is invoked; no predictor ever
\* receives a days_ahead below 1 or above 365.
C4_DaysAheadChecked ==
    /\ \A i \in 1..Len(calls) : InRange(calls[i].days_ahead)
    /\ (endpoint # "none" /\ ~InRange(request.days_ahead))
       => response.status \in {400, 422} /\ calls = << >>

----------------------------------------------------------------------------
(* C5 *)

\* C5: in get_spending_insights with a non-empty list, a category with fewer
\* than 2 transactions is never listed, the predictor is never called for
\* it, total_predicted_spending is made of the forecasts of the other
\* categories alone, and the call succeeds whatever such categories exist.
C5_SmallCategoriesSkipped ==
    (endpoint = "insights" /\ FetchedSome)
    => /\ response.status = 200
       /\ \A c \in Listed : InCategory(c) >= 2
       /\ \A i \in 1..Len(calls) :
            /\ InCategory(CallCategory(calls[i])) >= 2
            /\ ListLen(calls[i].transactions) >= 2
       /\ response.body.total_predicted_spending
            = SumTotals({ i \in Succeeded : InCategory(CallCategory(calls[i])) >= 2 })

C5_Witness ==
    /\ endpoint = "insights" /\ FetchedSome /\ response.status = 200
    /\ \E c \in Categories : InCategory(c) = 1
    /\ \E c \in Listed : InCategory(c) >= 2

----------------------------------------------------------------------------
(* C6 *)

\* C6: get_spending_insights with a non-empty list succeeds whichever
\* forecasts raise, and lists exactly the categories with at least 2
\* transactions whose forecast succeeded; it fails (404) only for an empty
\* list; when nothing is listed the result is [], 0 and "stable".
C6_FailuresAbsorbed ==
    (endpoint = "insights" /\ fetched)
    => IF transactions = << >> THEN response.status = 404
       ELSE /\ response.status = 200
            /\ Listed = { c \in Categories :
                            /\ InCategory(c) >= 2
                            /\ \E i \in Succeeded : CallCategory(calls[i]) = c }
            /\ \A c \in Categories : InCategory(c) >= 2 =>
                 Cardinality({ i \in 1..Len(calls) : CallCategory(calls[i]) = c }) = 1
            /\ Listed = {} =>
                 /\ response.body.categories = << >>
                 /\ response.body.total_predicted_spending = 0
                 /\ response.body.overall_trend = "stable"

C6_Witness ==
    /\ InsightsOk
    /\ \E i \in 1..Len(calls) : calls[i].outcome.kind = "raise"
    /\ \E i \in 1..Len(calls) : calls[i].outcome.kind = "return"
    /\ Len(response.body.categories) = Cardinality(Succeeded)

C6_WitnessAllFail ==
    /\ InsightsOk /\ Len(calls) >= 2 /\ Succeeded = {}
    /\ response.body.categories = << >>

----------------------------------------------------------------------------
(* C7 *)

\* C7: in every successful result of get_spending_insights,
\* total_predicted_spending is the sum of total_predicted over exactly the
\* categories listed in the result.
C7_TotalIsSumOfListed ==
    InsightsOk
    => response.body.total_predicted_spending
         = SumTotals({ i \in Succeeded : CallCategory(calls[i]) \in Listed })

C7_Witness ==
    /\ InsightsOk
    /\ Len(response.body.categories) >= 2
    /\ \E i \in 1..Len(calls) : calls[i].outcome.kind = "raise"
    /\ response.body.total_predicted_spending >= 3

----------------------------------------------------------------------------
(* C8 *)

\* the number of listed categories whose forecast has the given trend
Votes(trend) ==
    Cardinality({ i \in Succeeded :
                    /\ CallCategory(calls[i]) \in Listed
                    /\ calls[i].outcome.value.trend = trend })

\* C8: in every successful result of get_spending_insights, overall_trend
\* is "increasing" when strictly more listed categories are increasing than
\* decreasing, "decreasing" when strictly more are decreasing, and "stable"
\* otherwise; each listed category votes with the trend of its forecast.
C8_MajorityVote ==
    InsightsOk
    => /\ \A i \in 1..Len(response.body.categories) :
            \E j \in Succeeded :
                /\ CallCategory(calls[j]) = response.body.categories[i].category
                /\ calls[j].outcome.value.trend = response.body.categories[i].trend
       /\ Votes("increasing") > Votes("decreasing")
            => response.body.overall_trend = "increasing"
       /\ Votes("decreasing") > Votes("increasing")
            => response.body.overall_trend = "decreasing"
       /\ Votes("increasing") = Votes("decreasing")
            => response.body.overall_trend = "stable"

C8_Witness ==
    /\ InsightsOk
    /\ Votes("increasing") = 2 /\ Votes("decreasing") = 1
    /\ response.body.overall_trend = "increasing"

C8_WitnessTie ==
    /\ InsightsOk
    /\ Votes("increasing") = 1 /\ Votes("decreasing") = 1
    /\ response.body.overall_trend = "stable"

----------------------------------------------------------------------------
(* C9 *)

\* C9: whenever a request supplies a category (any string, the empty string
\* included), every transaction predict_expenses passes to the predictor
\* has exactly that category, the requested user and type "expense".
C9_CategoryFilterApplied ==
    (ViaPredictExpenses /\ request.category # None)
    => \A i \in 1..Len(calls) :
         \A k \in 1..Len(calls[i].transactions) :
            LET d == calls[i].transactions[k].doc
            IN  /\ d.category = request.category[1]
                /\ d.user = request.user_id
                /\ d.type = "expense"

----------------------------------------------------------------------------
(* C10 *)

\* the documents of the collection the last request asks for
Asked ==
    { d \in DOMAIN db :
        /\ db[d] > 0 /\ d.user = request.user_id /\ d.type = "expense"
        /\ (request.category # None /\ request.category # Some(""))
             => d.category = request.category[1] }

RECURSIVE Copies(_)
\* the number of transactions the documents of D stand for
Copies(D) ==
    IF D = {} THEN 0
    ELSE LET d == CHOOSE x \in D : TRUE IN db[d] + Copies(D \ {d})

Min(a, b) == IF a <= b THEN a ELSE b

\* C10: get_user_transactions hands every endpoint at most 1000
\* transactions in ascending date order; when more than 1000 match, the
\* list holds 1000 of them and no transaction left out is dated before a
\* transaction of the list.
C10_EarliestThousand ==
    fetched
    => /\ ListLen(transactions) <= 1000
       /\ ListLen(transactions) = Min(1000, Copies(Asked))
       /\ \A i, j \in 1..Len(transactions) :
            i < j => transactions[i].doc.date <= transactions[j].doc.date
       /\ \A i \in 1..Len(transactions) :
            /\ transactions[i].doc \in Asked
            /\ transactions[i].n >= 1
            /\ transactions[i].n <= db[transactions[i].doc]
            /\ \A j \in 1..Len(transactions) :
                 i # j => transactions[i].doc # transactions[j].doc
       /\ \A d \in Asked :
            CopiesIn(transactions, d) < db[d]
            => \A i \in 1..Len(transactions) : transactions[i].doc.date <= d.date

C10_Witness ==
    /\ fetched
    /\ Copies(Asked) > 1000
    /\ ListLen(transactions) = 1000
    /\ \E d \in Asked : CopiesIn(transactions, d) = 0
    /\ \E i, j \in 1..Len(transactions) :
         transactions[i].doc.date < transactions[j].doc.date

====
